---- MODULE Spec2Model ----
(***************************************************************************)
(* Model of beanstack: the store core (beanstack_store.py), its history    *)
(* ring (TimeTravel), the immutable wrappers (types.py) and the state      *)
(* merge used at construction (utils.py).                                  *)
(*                                                                         *)
(* Python values are encoded as tagged records [t |-> tag, v |-> payload]: *)
(*   "none"  None                 "int"   an integer                       *)
(*   "dict"  a plain dict         "list"  a plain list                     *)
(*   "idict" an ImmutableDict     "ilist" an ImmutableList                 *)
(*   "func"  a callable that is not a mapping                              *)
(* so that wrapping and unwrapping are real conversions.  copy.deepcopy    *)
(* yields an equal value of the same type; values here have no identity,   *)
(* so a deep copy is the value itself and is written without an operator.  *)
(* The timestamp of a history entry (datetime.now()) is not modelled.      *)
(***************************************************************************)
EXTENDS Integers, Sequences, FiniteSets, TLC

(***************************************************************************)
(* Bounds of the model.                                                    *)
(***************************************************************************)
\* capacity of the history ring (TimeTravel.__init__'s max_history, 50 by default)
MaxHistory == 3
\* the example reducer counts no further than this
MaxCount == 2
\* longest subscriber list explored
MaxSubscribers == 1
\* most entries pushed straight onto a ring
MaxPushes == 5
\* most dispatch calls one thread makes
MaxCalls == 1
\* longest subscriber list of a store whose registrations are followed
MaxRegistrations == 3
\* most calls through the API object under way at once
MaxDepth == 3

(***************************************************************************)
(* Python values.                                                          *)
(***************************************************************************)
EmptyMap == [k \in {} |-> 0]

PyNone == [t |-> "none", v |-> 0]

PyInt(n) == [t |-> "int", v |-> n]

PyDict(f) == [t |-> "dict", v |-> f]

PyList(s) == [t |-> "list", v |-> s]

PyFunc(name) == [t |-> "func", v |-> name]

\* bool(x): ImmutableDict defines neither __bool__ nor __len__, so it is
\* always true; ImmutableList defines __len__.
Truthy(x) ==
    CASE x.t = "none" -> FALSE
      [] x.t = "int" -> x.v # 0
      [] x.t = "dict" -> DOMAIN x.v # {}
      [] x.t = "list" -> Len(x.v) > 0
      [] x.t = "ilist" -> Len(x.v) > 0
      [] OTHER -> TRUE

\* isinstance(x, Mapping): ImmutableDict does not derive from Mapping
IsMapping(x) == x.t = "dict"

RECURSIVE ImmutableDict(_)
RECURSIVE ImmutableList(_)
RECURSIVE to_dict(_)
RECURSIVE to_list(_)

\* the element-wise wrapping done by both constructors
ImmutableWrap(value) ==
    IF IsMapping(value) THEN ImmutableDict(value)
    ELSE IF value.t = "list" THEN ImmutableList(value)
    ELSE value

ImmutableDict(data) ==
    [t |-> "idict",
     v |-> IF Truthy(data)
           THEN [k \in DOMAIN data.v |-> ImmutableWrap(data.v[k])]
           ELSE EmptyMap]

ImmutableList(data) ==
    [t |-> "ilist",
     v |-> IF Truthy(data)
           THEN [i \in 1..Len(data.v) |-> ImmutableWrap(data.v[i])]
           ELSE <<>>]

\* the element-wise unwrapping done by to_dict and to_list
ImmutableUnwrap(value) ==
    IF value.t = "idict" THEN to_dict(value)
    ELSE IF value.t = "ilist" THEN to_list(value)
    ELSE value

to_dict(self) ==
    PyDict([k \in DOMAIN self.v |-> ImmutableUnwrap(self.v[k])])

to_list(self) ==
    PyList([i \in 1..Len(self.v) |-> ImmutableUnwrap(self.v[i])])

\* {**d, key: value}
DictSet(d, key, value) ==
    PyDict([k \in DOMAIN d.v \cup {key} |-> IF k = key THEN value ELSE d.v[k]])

(***************************************************************************)
(* Actions and the reducer the store is built with.                        *)
(***************************************************************************)
Action(type) == PyDict([k \in {"type"} |-> type])

INIT_ACTION == Action("@@INIT")

\* IsAction without the test for the 'type' key
IsAction_NoTypeCheck(action) == action.t = "dict"

\* the test of _base_dispatch: a dict with a 'type' key
IsAction(action) == action.t = "dict" /\ "type" \in DOMAIN action.v

ActionTypes == {"INC", "BOOM"}

\* what callers hand to dispatch: actions, a dict without 'type', and
\* values that are no dict
Dispatchable ==
    {Action(ty) : ty \in ActionTypes}
        \cup {PyDict([k \in {"payload"} |-> PyInt(1)]), PyFunc("thunk")}

\* action.get('type', 'UNKNOWN')
ActionType(action) ==
    IF "type" \in DOMAIN action.v THEN action.v["type"] ELSE "UNKNOWN"

\* state.get('count', 0)
CountOf(state) == IF "count" \in DOMAIN state.v THEN state.v["count"].v ELSE 0

\* The caller's reducer: a counter.  INC adds one to 'count' (absent counts
\* as 0) and keeps the other keys; any other action returns the state as
\* it is.
Reducer(state, action) ==
    IF ActionType(action) = "INC"
    THEN DictSet(state, "count", PyInt(CountOf(state) + 1))
    ELSE state

\* the caller's reducer fails on this action
ReducerRaises(state, action) == ActionType(action) = "BOOM"

\* INC is dispatched only while the counter is below MaxCount
WithinBounds(state, action) ==
    (action.t = "dict" /\ ActionType(action) = "INC") => CountOf(state) < MaxCount

(***************************************************************************)
(* Persistence: the in-memory backend and the merge done at construction.  *)
(***************************************************************************)
\* json.dumps / json.loads of MemoryStorage, on values json can carry
JsonDumps(data) == [t |-> "json", v |-> data]

JsonLoads(text) == text.v

\* MemoryStorage.load: the decoded blob, or None when the key is absent
StorageLoad(slot) == IF slot.t = "json" THEN JsonLoads(slot) ELSE PyNone

\* the dict comprehension of _rehydrate_state and _persist_state
RestrictKeys(d, keys) ==
    PyDict([k \in {keys.v[i] : i \in 1..Len(keys.v)} \cap DOMAIN d.v |-> d.v[k]])

\* combine_state that lets the stored value win without descending into
\* nested mappings
combine_state_Shallow(initial_state, stored_state) ==
    PyDict([key \in DOMAIN initial_state.v \cup DOMAIN stored_state.v |->
        IF key \in DOMAIN stored_state.v THEN stored_state.v[key]
        ELSE initial_state.v[key]])

RECURSIVE combine_state(_, _)
combine_state(initial_state, stored_state) ==
    PyDict([key \in DOMAIN initial_state.v \cup DOMAIN stored_state.v |->
        IF key \notin DOMAIN stored_state.v THEN initial_state.v[key]
        ELSE IF key \notin DOMAIN initial_state.v THEN stored_state.v[key]
        ELSE IF IsMapping(initial_state.v[key]) /\ IsMapping(stored_state.v[key])
             THEN combine_state(initial_state.v[key], stored_state.v[key])
        ELSE IF initial_state.v[key] # stored_state.v[key] THEN stored_state.v[key]
        ELSE initial_state.v[key]])

\* _rehydrate_state: None without a backend or a stored blob
RehydrateState(hasStorage, slot, keys) ==
    IF ~hasStorage THEN PyNone
    ELSE IF ~Truthy(StorageLoad(slot)) THEN PyNone
    ELSE IF Truthy(keys) THEN RestrictKeys(StorageLoad(slot), keys)
    ELSE StorageLoad(slot)

\* the snapshot __init__ builds from its arguments and the backend
InitialSnapshot(initial_state, hasStorage, slot, keys) ==
    LET rehydrated_state == RehydrateState(hasStorage, slot, keys)
        base_state == IF Truthy(initial_state) THEN initial_state ELSE PyDict(EmptyMap)
    IN  ImmutableDict(IF Truthy(rehydrated_state)
                      THEN combine_state(base_state, rehydrated_state)
                      ELSE base_state)

\* PersistBlob that ignores the allow-list
PersistBlob_Unrestricted(snapshot, keys) == to_dict(snapshot)

\* the blob _persist_state hands to save
PersistBlob(snapshot, keys) ==
    IF Truthy(keys) THEN RestrictKeys(to_dict(snapshot), keys) ELSE to_dict(snapshot)

(***************************************************************************)
(* The history ring.                                                       *)
(***************************************************************************)
HistoryEntry(state, action) == [state |-> state, action |-> action]

\* DequeAppend on a deque without maxlen: nothing is ever dropped
DequeAppend_NoEviction(h, e) == Append(h, e)

\* DequeAppend on a full deque that keeps what it holds and drops the
\* new entry
DequeAppend_DropsNew(h, e) == IF Len(h) >= MaxHistory THEN h ELSE Append(h, e)

\* deque.append under maxlen: a full deque drops its head
DequeAppend(h, e) ==
    IF MaxHistory = 0 THEN h
    ELSE IF Len(h) >= MaxHistory THEN Tail(h) \o <<e>>
    ELSE Append(h, e)

\* push_state that cuts the history at [:current_index], one entry short
push_state_TruncatesAtCursor(h, ci, state, action) ==
    LET kept == IF ci < Len(h) - 1 THEN SubSeq(h, 1, ci) ELSE h
        appended == DequeAppend(kept, HistoryEntry(state, action))
    IN  [history |-> appended, current_index |-> Len(appended) - 1]

\* TimeTravel.push_state, as the new (history, current_index)
push_state(h, ci, state, action) ==
    LET kept == IF ci < Len(h) - 1 THEN SubSeq(h, 1, ci + 1) ELSE h
        appended == DequeAppend(kept, HistoryEntry(state, action))
    IN  [history |-> appended, current_index |-> Len(appended) - 1]

\* tt_get_state without the test 0 <= index: a negative index counts from
\* the end of the deque, as Python indexing does
tt_get_state_NoLowerBound(h, index) ==
    IF index < Len(h) /\ Len(h) + index >= 0
    THEN h[(IF index < 0 THEN Len(h) + index ELSE index) + 1].state
    ELSE PyNone

\* TimeTravel.get_state(index)
tt_get_state(h, index) ==
    IF 0 <= index /\ index < Len(h) THEN h[index + 1].state ELSE PyNone

\* TimeTravel.get_current_state()
get_current_state(h, ci) ==
    IF ci >= 0 THEN h[ci + 1].state ELSE PyNone

(***************************************************************************)
(* Subscribers.                                                            *)
(***************************************************************************)
\* "widget" is an object with redraw(), "faulty" a callback that raises
Subscribers == {"widget", "faulty"}

\* how _notify_subscribers invokes one subscriber
Invocation(subscriber) ==
    [subscriber |-> subscriber,
     how |-> IF subscriber = "widget" THEN "redraw" ELSE "call"]

\* NotifyStop for a loop that goes on after a subscriber has raised
NotifyStop_RunsAll(subs) == Len(subs)

\* the loop of _notify_subscribers stops at the first subscriber that raises
NotifyStop(subs) ==
    IF \E i \in 1..Len(subs) : subs[i] = "faulty"
    THEN CHOOSE i \in 1..Len(subs) :
            subs[i] = "faulty" /\ \A j \in 1..(i - 1) : subs[j] # "faulty"
    ELSE Len(subs)

\* the invocations one _notify_subscribers makes, in order
NotifyCalls(subs) == [i \in 1..NotifyStop(subs) |-> Invocation(subs[i])]

NotifyRaises(subs) == \E i \in 1..Len(subs) : subs[i] = "faulty"

\* ListRemove that drops every registration of the listener
ListRemove_Every(subs, listener) ==
    SelectSeq(subs, LAMBDA registered : registered # listener)

\* list.remove: the first equal element goes
ListRemove(subs, listener) ==
    LET i == CHOOSE j \in 1..Len(subs) :
                subs[j] = listener /\ \A m \in 1..(j - 1) : subs[m] # listener
    IN  SubSeq(subs, 1, i - 1) \o SubSeq(subs, i + 1, Len(subs))

(***************************************************************************)
(* The store.                                                              *)
(***************************************************************************)
VARIABLES
    state,          \* _state, an ImmutableDict
    subscribers,    \* _subscribers
    debug_mode,     \* _debug_mode
    history,        \* _time_travel.history
    current_index,  \* _time_travel.current_index
    storage,        \* whether _storage is a backend (TRUE) or None
    persist_keys,   \* _persist_keys
    slot,           \* what the backend holds under _storage_key
    lastOp,         \* the call made last and its argument
    raised,         \* the error that call raised, "none" if it returned
    notified,       \* the subscriber invocations that call made
    saved,          \* the blobs that call handed to the backend's save
    origin,         \* what get_state() returned right after construction
    pushed,         \* the entries pushed straight onto the ring, in order
    tailPushes,     \* whether each of them found the cursor at the tail
    pc,             \* where each thread is in _base_dispatch
    taction,        \* the action each thread is dispatching
    tnew,           \* each thread's local new_state
    calls,          \* how many dispatch calls each thread has made
    lock,           \* _lock, a reentrant lock: its owner and hold count
    committed,      \* the actions threads have committed, in commit order
    returned,       \* what the last call of a combined reducer or of a chain returned
    chain,          \* the middlewares the store was enhanced with, first-registered first
    reducer,        \* which reducer a store with a chain was created with
    trace,          \* what the links of the chain did during the last call
    failure         \* the exception that call ended with, NoFailure if it returned

storeVars == <<state, subscribers, debug_mode, history, current_index, slot>>

configVars == <<storage, persist_keys, origin>>

callVars == <<lastOp, raised, notified, saved>>

ringVars == <<pushed, tailPushes>>

threadVars == <<pc, taction, tnew, calls, lock, committed>>

chainVars == <<returned, chain, reducer, trace, failure>>

vars == <<state, subscribers, debug_mode, history, current_index, storage,
          persist_keys, slot, lastOp, raised, notified, saved, origin,
          pushed, tailPushes, pc, taction, tnew, calls, lock, committed,
          returned, chain, reducer, trace, failure>>

\* the threads that share the store
Threads == {"t1", "t2"}

\* threading.RLock(), not held
Unlocked == [owner |-> "none", count |-> 0]

\* an initial_state argument with a nested mapping and a list
NestedState ==
    PyDict([k \in {"count", "user", "tags"} |->
        CASE k = "count" -> PyInt(0)
          [] k = "user" -> PyDict([j \in {"id"} |-> PyInt(1)])
          [] OTHER -> PyList(<<PyInt(1)>>)])

\* a blob an earlier run left in the backend
StoredBlob == JsonDumps(PyDict([k \in {"count"} |-> PyInt(1)]))

Construction(initial_state, hasStorage, keys, held) ==
    [initial_state |-> initial_state, storage |-> hasStorage,
     persist_keys |-> keys, slot |-> held]

\* the constructor calls explored: no initial state with an empty backend,
\* a nested initial state with a blob to rehydrate and a persist_keys
\* allow-list, a nested initial state and no backend
Constructions ==
    {Construction(PyNone, TRUE, PyNone, PyNone),
     Construction(NestedState, TRUE, PyList(<<"count">>), StoredBlob),
     Construction(NestedState, FALSE, PyNone, PyNone)}

Op(name, arg) == [op |-> name, arg |-> arg]

\* no exception
NoFailure == [kind |-> "none", during |-> "none"]

\* beanstackStore.__init__
InitStore ==
    /\ \E c \in Constructions :
          /\ storage = c.storage
          /\ persist_keys = c.persist_keys
          /\ slot = c.slot
          /\ state = InitialSnapshot(c.initial_state, c.storage, c.slot, c.persist_keys)
    /\ subscribers = <<>>
    /\ debug_mode = FALSE
    /\ history = <<>>
    /\ current_index = -1
    /\ lastOp = Op("init", PyNone)
    /\ raised = "none"
    /\ notified = <<>>
    /\ saved = <<>>
    /\ origin = to_dict(state)
    /\ pushed = <<>>
    /\ tailPushes = TRUE
    /\ pc = [t \in Threads |-> "idle"]
    /\ taction = [t \in Threads |-> PyNone]
    /\ tnew = [t \in Threads |-> PyNone]
    /\ calls = [t \in Threads |-> 0]
    /\ lock = Unlocked
    /\ committed = <<>>
    /\ returned = PyNone
    /\ trace = <<>>
    /\ failure = NoFailure

\* create_store: no middleware, the caller's counter reducer
Init ==
    /\ InitStore
    /\ chain = <<>>
    /\ reducer = "counter"

\* get_state that reads the live snapshot in debug mode too
get_state_IgnoresCursor == to_dict(state)

\* beanstackStore.get_state() without a slice key
get_state ==
    IF debug_mode /\ get_current_state(history, current_index) # PyNone
    THEN get_current_state(history, current_index)
    ELSE to_dict(state)

\* ReduceLive on what get_state() shows: in debug mode the state of the
\* entry under the cursor
ReduceLive_FromView(snapshot, action) == Reducer(get_state, action)

\* _base_dispatch, line 151: the reducer runs on the live snapshot
ReduceLive(snapshot, action) == Reducer(to_dict(snapshot), action)

\* CommitState with the assignment lost
CommitState_Skipped(snapshot, new_state) == snapshot

\* _base_dispatch, line 152: the result replaces the live snapshot
CommitState(snapshot, new_state) == ImmutableDict(new_state)

\* beanstackStore.dispatch / _base_dispatch
Dispatch(action) ==
    /\ UNCHANGED <<ringVars, threadVars, chainVars>>
    /\ WithinBounds(to_dict(state), action)
    /\ lastOp' = Op("dispatch", action)
    /\ UNCHANGED <<subscribers, debug_mode, configVars>>
    /\ IF ~IsAction(action)
       THEN /\ raised' = "ValueError"
            /\ notified' = <<>>
            /\ saved' = <<>>
            /\ UNCHANGED <<state, history, current_index, slot>>
       ELSE IF ReducerRaises(to_dict(state), action)
       THEN /\ raised' = "ReducerError"
            /\ notified' = <<>>
            /\ saved' = <<>>
            /\ UNCHANGED <<state, history, current_index, slot>>
       ELSE LET new_state == ReduceLive(state, action)
                ring == push_state(history, current_index, new_state, action)
                blob == PersistBlob(CommitState(state, new_state), persist_keys)
            IN  /\ state' = CommitState(state, new_state)
                /\ IF debug_mode
                   THEN /\ history' = ring.history
                        /\ current_index' = ring.current_index
                   ELSE UNCHANGED <<history, current_index>>
                /\ IF storage
                   THEN saved' = <<blob>> /\ slot' = JsonDumps(blob)
                   ELSE saved' = <<>> /\ UNCHANGED slot
                /\ notified' = NotifyCalls(subscribers)
                /\ raised' = IF NotifyRaises(subscribers) THEN "SubscriberError" ELSE "none"

\* beanstackStore.subscribe, while the list is shorter than limit
SubscribeWithin(listener, limit) ==
    /\ UNCHANGED <<ringVars, threadVars, chainVars>>
    /\ Len(subscribers) < limit
    /\ subscribers' = Append(subscribers, listener)
    /\ lastOp' = Op("subscribe", PyFunc(listener))
    /\ raised' = "none"
    /\ notified' = <<>>
    /\ saved' = <<>>
    /\ UNCHANGED <<state, debug_mode, history, current_index, slot, configVars>>

\* beanstackStore.subscribe
Subscribe(listener) == SubscribeWithin(listener, MaxSubscribers)

\* the function subscribe returns: beanstackStore._unsubscribe
Unsubscribe(listener) ==
    /\ UNCHANGED <<ringVars, threadVars, chainVars>>
    /\ subscribers' = IF \E i \in 1..Len(subscribers) : subscribers[i] = listener
                      THEN ListRemove(subscribers, listener)
                      ELSE subscribers
    /\ lastOp' = Op("unsubscribe", PyFunc(listener))
    /\ raised' = "none"
    /\ notified' = <<>>
    /\ saved' = <<>>
    /\ UNCHANGED <<state, debug_mode, history, current_index, slot, configVars>>

\* SeedHistory that pushes only into an empty ring
SeedHistory_IfEmpty(h, ci, snapshot) ==
    IF Len(h) = 0
    THEN push_state(h, ci, to_dict(snapshot), INIT_ACTION)
    ELSE [history |-> h, current_index |-> ci]

\* enable_debug, line 194: the live snapshot is pushed as @@INIT
SeedHistory(h, ci, snapshot) == push_state(h, ci, to_dict(snapshot), INIT_ACTION)

\* beanstackStore.enable_debug
EnableDebug ==
    /\ UNCHANGED <<ringVars, threadVars, chainVars>>
    /\ lastOp' = Op("enable_debug", PyNone)
    /\ raised' = "none"
    /\ notified' = <<>>
    /\ saved' = <<>>
    /\ UNCHANGED <<state, subscribers, slot, configVars>>
    /\ IF ~debug_mode
       THEN LET ring == SeedHistory(history, current_index, state)
            IN  /\ debug_mode' = TRUE
                /\ history' = ring.history
                /\ current_index' = ring.current_index
       ELSE UNCHANGED <<debug_mode, history, current_index>>

\* LatestIndex that takes the entry under the cursor
LatestIndex_Cursor(h, ci) == ci

\* disable_debug, line 201: the index of the entry that is committed
LatestIndex(h, ci) == Len(h) - 1

\* beanstackStore.disable_debug
DisableDebug ==
    /\ UNCHANGED <<ringVars, threadVars, chainVars>>
    /\ lastOp' = Op("disable_debug", PyNone)
    /\ raised' = "none"
    /\ notified' = <<>>
    /\ UNCHANGED <<subscribers, history, current_index, configVars>>
    /\ IF debug_mode
       THEN LET latest_state == tt_get_state(history, LatestIndex(history, current_index))
                blob == PersistBlob(ImmutableDict(latest_state), persist_keys)
            IN  /\ debug_mode' = FALSE
                /\ IF Truthy(latest_state)
                   THEN /\ state' = ImmutableDict(latest_state)
                        /\ IF storage
                           THEN saved' = <<blob>> /\ slot' = JsonDumps(blob)
                           ELSE saved' = <<>> /\ UNCHANGED slot
                   ELSE saved' = <<>> /\ UNCHANGED <<state, slot>>
       ELSE saved' = <<>> /\ UNCHANGED <<debug_mode, state, slot>>

\* the indices time_travel_to is called with: negative, retained, too large
TravelIndices == (0 - 1)..MaxHistory

\* time_travel_to that also writes the entry it jumps to into the live
\* snapshot
TimeTravelTo_Restoring(index) ==
    /\ UNCHANGED <<ringVars, threadVars, chainVars>>
    /\ lastOp' = Op("time_travel_to", PyInt(index))
    /\ saved' = <<>>
    /\ UNCHANGED <<subscribers, debug_mode, history, slot, configVars>>
    /\ IF ~debug_mode
       THEN /\ raised' = "RuntimeError"
            /\ notified' = <<>>
            /\ UNCHANGED <<state, current_index>>
       ELSE IF tt_get_state(history, index) # PyNone
       THEN /\ current_index' = index
            /\ state' = ImmutableDict(tt_get_state(history, index))
            /\ notified' = NotifyCalls(subscribers)
            /\ raised' = IF NotifyRaises(subscribers) THEN "SubscriberError" ELSE "none"
       ELSE /\ raised' = "none"
            /\ notified' = <<>>
            /\ UNCHANGED <<state, current_index>>

\* beanstackStore.time_travel_to
TimeTravelTo(index) ==
    /\ UNCHANGED <<ringVars, threadVars, chainVars>>
    /\ lastOp' = Op("time_travel_to", PyInt(index))
    /\ saved' = <<>>
    /\ UNCHANGED <<state, subscribers, debug_mode, history, slot, configVars>>
    /\ IF ~debug_mode
       THEN /\ raised' = "RuntimeError"
            /\ notified' = <<>>
            /\ UNCHANGED current_index
       ELSE IF tt_get_state(history, index) # PyNone
       THEN /\ current_index' = index
            /\ notified' = NotifyCalls(subscribers)
            /\ raised' = IF NotifyRaises(subscribers) THEN "SubscriberError" ELSE "none"
       ELSE /\ raised' = "none"
            /\ notified' = <<>>
            /\ UNCHANGED current_index

Next ==
    \/ \E action \in Dispatchable : Dispatch(action)
    \/ \E listener \in Subscribers : Subscribe(listener)
    \/ \E listener \in Subscribers : Unsubscribe(listener)
    \/ EnableDebug
    \/ DisableDebug
    \/ \E index \in TravelIndices : TimeTravelTo(index)

Spec == Init /\ [][Next]_vars

(***************************************************************************)
(* The history ring on its own: entries are pushed straight onto a         *)
(* TimeTravel and the cursor is moved the way time_travel_to moves it.     *)
(***************************************************************************)
\* the states pushed
RingStates == {PyDict([k \in {"count"} |-> PyInt(n)]) : n \in 0..MaxCount}

\* TimeTravel.push_state(state, action), called directly
RingPush(st, action) ==
    /\ Len(pushed) < MaxPushes
    /\ LET ring == push_state(history, current_index, st, action)
       IN  /\ history' = ring.history
           /\ current_index' = ring.current_index
    /\ pushed' = Append(pushed, HistoryEntry(st, action))
    /\ tailPushes' = (tailPushes /\ current_index = Len(history) - 1)
    /\ UNCHANGED <<state, subscribers, debug_mode, slot, configVars, callVars, chainVars, threadVars>>

\* the cursor move of time_travel_to, lines 212-214
RingTravel(index) ==
    /\ current_index' = IF tt_get_state(history, index) # PyNone
                        THEN index
                        ELSE current_index
    /\ UNCHANGED <<state, subscribers, debug_mode, history, slot, configVars,
                   callVars, chainVars, ringVars, threadVars>>

\* a store without a backend, whose ring is driven directly
InitRing == Init /\ ~storage

NextRing ==
    \/ \E st \in RingStates : RingPush(st, Action("INC"))
    \/ \E index \in TravelIndices : RingTravel(index)

SpecRing == InitRing /\ [][NextRing]_vars

(***************************************************************************)
(* Registrations: one store without a backend whose subscriber list grows  *)
(* to MaxRegistrations entries, the same callback several times over, and  *)
(* is notified by dispatches and by jumps in the history.                  *)
(***************************************************************************)
\* the listeners: "callback" is a plain function that returns
Callbacks == Subscribers \cup {"callback"}

\* an action the reducer answers with the state as it is
PING == Action("PING")

InitSubs == Init /\ ~storage

NextSubs ==
    \/ \E listener \in Callbacks : SubscribeWithin(listener, MaxRegistrations)
    \/ \E listener \in Callbacks : Unsubscribe(listener)
    \/ Dispatch(PING)
    \/ EnableDebug
    \/ \E index \in TravelIndices : TimeTravelTo(index)

SpecSubs == InitSubs /\ [][NextSubs]_vars

(***************************************************************************)
(* Middleware: a store enhanced by apply_middleware.  One call of the      *)
(* composed dispatch is computed as a whole: every link runs to its end,   *)
(* the calls links make through the shared API object included.  What the  *)
(* call does is carried in a record: the live snapshot, the subscriber     *)
(* invocations, the events logged, and the result or the exception the     *)
(* call is ending with.  The store has no backend and    *)
(* is not in debug mode, so lines 154-158 of _base_dispatch do nothing.    *)
(***************************************************************************)
\* ActionTypes.INIT, dispatched by enhanced_create_store
PYREDUX_INIT == Action("@@pyredux/INIT")

\* "probe1", "probe2": caller-written middlewares that log and call next;
\* "guarded": one declared through @middleware, as logger_middleware is;
\* "relay": a caller-written middleware that dispatches INC through the API
\*          object when it sees @@pyredux/INIT or PING, then calls next;
\* "thunk", "error": thunk_middleware and error_middleware
Middlewares == {"probe1", "probe2", "guarded", "relay", "thunk", "error"}

\* the reducers a store with a chain is created with: the counter, and a
\* counter that raises on every action type it does not know
Reducers == {"counter", "strict"}

\* the reducer of the store raises on this action
ChainReducerRaises(st, action) ==
    IF reducer = "strict"
    THEN ActionType(action) \notin {"INC", ActionType(PYREDUX_INIT)}
    ELSE ReducerRaises(st, action)

\* reversed(seq)
Reversed(seq) == [i \in 1..Len(seq) |-> seq[Len(seq) - i + 1]]

\* ChainList without reversed()
ChainList_InOrder(middlewares) == middlewares

\* line 59: chain, the middlewares bound to the API object, last one first
ChainList(middlewares) == Reversed(middlewares)

\* line 60: reduce(lambda acc, curr: curr(acc), chain, store.dispatch) wraps
\* each element of chain around what is composed so far; the links of the
\* result, outermost first
Composed(links) == Reversed(links)

\* the links of store.dispatch, outermost first
Links == Composed(ChainList(chain))

\* ApiEntry for an API object bound to the link after the caller
ApiEntry_NextLink(i) == i + 1

\* line 55: the API object's dispatch calls the composed dispatch, whatever
\* link i calls it
ApiEntry(i) == 1

\* callable without an answer for functions
Callable_Never(action) == FALSE

\* callable(action)
Callable(action) == action.t = "func"

\* isinstance(action, dict), the test of the @middleware wrapper
IsDict(action) == action.t = "dict"

\* an exception, known by its class and the action the store was handling
Failure(kind, during) == [kind |-> kind, during |-> during]

\* the ERROR action of error_middleware, lines 138-144
ErrorAction(action, f) ==
    PyDict([k \in {"type", "payload"} |->
        IF k = "type" THEN "ERROR"
        ELSE PyDict([j \in {"action", "error"} |-> IF j = "action" THEN action ELSE f])])

\* what a link did: who, what, on which action, with which exception
Event(who, ev, action, f) == [who |-> who, ev |-> ev, action |-> action, failure |-> f]

\* a call that has not done anything yet
World(snapshot) ==
    [state |-> snapshot, notified |-> <<>>, trace |-> <<>>, result |-> PyNone,
     failure |-> NoFailure]

Log(w, who, ev, action) ==
    [w EXCEPT !.trace = Append(@, Event(who, ev, action, w.failure))]

\* raise
Raise(w, f) == [w EXCEPT !.failure = f, !.result = PyNone]

\* return
Return(w, result) == [w EXCEPT !.failure = NoFailure, !.result = result]

\* a link is left, by return or by the exception passing through
Leave(w, who, action) ==
    Log(w, who, IF w.failure = NoFailure THEN "exit" ELSE "raise", action)

\* beanstackStore._base_dispatch, the innermost link
BaseDispatch(action, w) ==
    LET entered == Log(w, "base", "enter", action)
        reducing == Log(entered, "base", "reduce", action)
        replaced == [reducing EXCEPT
                        !.state = CommitState(w.state, ReduceLive(w.state, action)),
                        !.notified = @ \o NotifyCalls(subscribers)]
    IN  IF ~IsAction(action)
        THEN Leave(Raise(entered, Failure("ValueError", "malformed")), "base", action)
        ELSE IF ChainReducerRaises(to_dict(w.state), action)
        THEN Leave(Raise(reducing, Failure("ReducerError", ActionType(action))), "base", action)
        ELSE IF NotifyRaises(subscribers)
        THEN Leave(Raise(replaced, Failure("SubscriberError", ActionType(action))), "base", action)
        ELSE Leave(Return(replaced, action), "base", action)

RECURSIVE RunLink(_, _, _, _)
\* link i of the composed dispatch called with action; depth counts the
\* calls through the API object that are under way
RunLink(i, action, w, depth) ==
    IF i > Len(Links) THEN BaseDispatch(action, w)
    ELSE
    LET who == Links[i]
        entered == Log(w, who, "enter", action)
        skipped == Log(w, who, "skip", action)
        \* next_dispatch(a)
        Forward(a, from) == RunLink(i + 1, a, from, depth)
        \* store.dispatch(a), on the API object
        Redispatch(a, from) ==
            IF depth >= MaxDepth
            THEN Raise(from, Failure("RecursionError", "none"))
            ELSE RunLink(ApiEntry(i), a, Log(from, who, "dispatch", a), depth + 1)
        \* the path of the @middleware wrapper for an action that is no dict
        Unguarded == Leave(Forward(action, skipped), who, action)
    IN  CASE who \in {"probe1", "probe2"} ->
                Leave(Forward(action, entered), who, action)
          [] who = "guarded" ->
                IF ~IsDict(action) THEN Unguarded
                ELSE Leave(Forward(action, entered), who, action)
          [] who = "relay" ->
                IF IsDict(action)
                   /\ ActionType(action) \in {"PING", ActionType(PYREDUX_INIT)}
                THEN LET sent == Redispatch(Action("INC"), entered)
                     IN  IF sent.failure # NoFailure THEN Leave(sent, who, action)
                         ELSE Leave(Forward(action, sent), who, action)
                ELSE Leave(Forward(action, entered), who, action)
          [] who = "thunk" ->
                \* the thunk dispatches INC and returns get_state()
                IF Callable(action)
                THEN LET sent == Redispatch(Action("INC"), Log(entered, who, "invoke", action))
                     IN  IF sent.failure # NoFailure THEN Leave(sent, who, action)
                         ELSE Leave(Return(sent, to_dict(sent.state)), who, action)
                ELSE Leave(Forward(action, entered), who, action)
          [] who = "error" ->
                IF ~IsDict(action) THEN Unguarded
                ELSE LET tried == Forward(action, entered)
                         caught == Log(tried, who, "catch", action)
                         sent == Redispatch(ErrorAction(action, tried.failure),
                                            Return(caught, PyNone))
                     IN  IF tried.failure = NoFailure THEN Leave(tried, who, action)
                         ELSE IF ActionType(action) # "ERROR"
                         THEN IF sent.failure # NoFailure THEN Leave(sent, who, action)
                              ELSE Leave(Raise(sent, tried.failure), who, action)
                         ELSE Leave(caught, who, action)

\* store.dispatch(action) on the enhanced store, named op in lastOp
CallChain(op, action) ==
    LET w == RunLink(1, action, World(state), 0)
    IN  /\ CountOf(to_dict(w.state)) <= MaxCount
        /\ state' = w.state
        /\ notified' = w.notified
        /\ trace' = w.trace
        /\ returned' = w.result
        /\ failure' = w.failure
        /\ raised' = w.failure.kind
        /\ lastOp' = Op(op, action)
        /\ saved' = <<>>
        /\ UNCHANGED <<subscribers, debug_mode, history, current_index, slot, configVars,
                       ringVars, threadVars, chain, reducer>>

\* enhanced_create_store has built the store and composed the chain but
\* not yet dispatched @@pyredux/INIT
Enhancing == lastOp.op = "init"

\* enhanced_create_store has returned the store
Enhanced == ~Enhancing /\ ~(lastOp.op = "enhanced_create_store" /\ failure # NoFailure)

\* enhanced_create_store, line 66
DispatchInit == Enhancing /\ CallChain("enhanced_create_store", PYREDUX_INIT)

\* store.dispatch(action), the composed dispatch
ChainDispatch(action) == Enhanced /\ CallChain("dispatch", action)

ChainSubscribe(listener) == Enhanced /\ Subscribe(listener)

ChainUnsubscribe(listener) == Enhanced /\ Unsubscribe(listener)

\* the default of debounce_middleware's delay_ms
delay_ms == 1000

\* debounce_middleware(delay_ms): `@middleware` on line 155 decorates a
\* function that is itself named middleware, which makes that name local to
\* debounce_middleware and not yet bound when the decorator is looked up;
\* the call raises UnboundLocalError and returns no middleware
MakeDebounce ==
    /\ Enhanced
    /\ lastOp' = Op("debounce_middleware", PyInt(delay_ms))
    /\ raised' = "UnboundLocalError"
    /\ failure' = Failure("UnboundLocalError", "none")
    /\ returned' = PyNone
    /\ trace' = <<>>
    /\ notified' = <<>>
    /\ saved' = <<>>
    /\ UNCHANGED <<storeVars, configVars, ringVars, threadVars, chain, reducer>>

\* the chains explored, as the arguments of apply_middleware
Chains ==
    {<<"probe1", "probe2">>,
     <<"probe1", "relay", "probe2">>,
     <<"thunk">>,
     <<"guarded", "error", "thunk">>,
     <<"probe1", "error">>}

\* what is dispatched on a store with a chain
ChainActions == {Action("INC"), PING, Action("BOOM"), PyFunc("thunk")}

\* apply_middleware(*chain)(create_store)(reducer, initial_state), up to line 63
InitChain ==
    /\ InitStore
    /\ ~storage
    /\ chain \in Chains
    /\ reducer \in Reducers

NextChain ==
    \/ DispatchInit
    \/ \E action \in ChainActions : ChainDispatch(action)
    \/ \E listener \in Subscribers : ChainSubscribe(listener)
    \/ \E listener \in Subscribers : ChainUnsubscribe(listener)
    \/ MakeDebounce

SpecChain == InitChain /\ [][NextChain]_vars

(***************************************************************************)
(* combine_reducers on its own: combined reducers are built from every     *)
(* assignment of sub-reducers to keys and called on states and actions.    *)
(***************************************************************************)
\* the sub-reducers registered: one returns a number, one a mapping, one a
\* list
SubReducers == {"counter", "profile", "tags"}

\* reducer(state.get(key), action) for the sub-reducer of that name
SubReducer(name, slice, action) ==
    CASE name = "counter" ->
            PyInt((IF slice.t = "int" THEN slice.v ELSE 0)
                  + (IF ActionType(action) = "INC" THEN 1 ELSE 0))
      [] name = "profile" ->
            IF slice.t = "dict" THEN DictSet(slice, "seen", PyInt(1))
            ELSE PyDict([k \in {"seen"} |-> PyInt(0)])
      [] OTHER -> PyList(<<PyInt(1)>>)

\* state.get(key)
StateGet(st, key) == IF key \in DOMAIN st.v THEN st.v[key] ELSE PyNone

\* the function combine_reducers(reducers) returns, called on (st, action)
combined_reducer(reducers, st, action) ==
    LET given == IF st = PyNone THEN PyDict(EmptyMap) ELSE st
        next_state ==
            PyDict([key \in DOMAIN reducers |->
                SubReducer(reducers[key], StateGet(given, key), action)])
    IN  ImmutableDict(next_state)

\* the keys reducers are registered under, and a key none is registered under
SliceKeys == {"a", "b"}

StateKeys == SliceKeys \cup {"c"}

\* the reducers arguments of combine_reducers
ReducerMaps == UNION {[ks -> SubReducers] : ks \in SUBSET SliceKeys}

\* the states a combined reducer is called with: None and mappings
CombinedStates ==
    {PyNone} \cup
    {PyDict(f) : f \in UNION {[ks -> {PyInt(1), PyDict([k \in {"id"} |-> PyInt(1)])}] :
                                ks \in SUBSET StateKeys}}

\* combine_reducers(reducers)(st, action)
CallCombined(reducers, st, action) ==
    /\ lastOp' = Op("combined_reducer",
                    [reducers |-> reducers, state |-> st, action |-> action])
    /\ returned' = combined_reducer(reducers, st, action)
    /\ UNCHANGED <<storeVars, configVars, raised, notified, saved, ringVars, threadVars,
                   chain, reducer, trace, failure>>

NextCombine ==
    \E reducers \in ReducerMaps : \E st \in CombinedStates :
        \E action \in {Action("INC"), PING} : CallCombined(reducers, st, action)

SpecCombine == InitSubs /\ [][NextCombine]_vars

(***************************************************************************)
(* Construction on its own: stores are created over and over, from every   *)
(* combination of an initial state, a stored blob and an allow-list.       *)
(***************************************************************************)
\* the top-level keys of the states a store is created with
CreateKeys == {"count", "user"}

\* the values the caller gives: a scalar and a mapping
InitialValues == {PyInt(0), PyDict([k \in {"id", "role"} |-> PyInt(1)])}

\* the values the backend holds: another scalar, and a mapping that shares
\* one key with the caller's
StoredValues == {PyInt(5), PyDict([k \in {"id", "name"} |-> PyInt(2)])}

\* the mappings over some of the keys, with values from the set
CreateStates(values) ==
    {PyDict(f) : f \in UNION {[ks -> values] : ks \in SUBSET CreateKeys}}

\* the persist_keys arguments: none, an empty list, one key, one key the
\* states have and one they have not
CreatePersistKeys ==
    {PyNone, PyList(<<>>), PyList(<<"count">>), PyList(<<"user", "flag">>)}

\* the arguments of create_store and what the backend holds at that moment
CreateArgs ==
    {Construction(i, TRUE, keys, held) :
        i \in CreateStates(InitialValues) \cup {PyNone},
        keys \in CreatePersistKeys,
        held \in {JsonDumps(l) : l \in CreateStates(StoredValues)} \cup {PyNone}}
    \cup {Construction(i, FALSE, PyNone, PyNone) : i \in CreateStates(InitialValues)}

\* create_store: a new store replaces the one at hand
CreateStore(c) ==
    /\ storage' = c.storage
    /\ persist_keys' = c.persist_keys
    /\ slot' = c.slot
    /\ state' = InitialSnapshot(c.initial_state, c.storage, c.slot, c.persist_keys)
    /\ subscribers' = <<>>
    /\ debug_mode' = FALSE
    /\ history' = <<>>
    /\ current_index' = -1
    /\ lastOp' = Op("create_store", c.initial_state)
    /\ raised' = "none"
    /\ notified' = <<>>
    /\ saved' = <<>>
    /\ origin' = to_dict(state')
    /\ UNCHANGED <<ringVars, threadVars, chainVars>>

NextCreate == \E c \in CreateArgs : CreateStore(c)

SpecCreate == Init /\ [][NextCreate]_vars

(***************************************************************************)
(* Threads dispatching on one store: _base_dispatch statement by           *)
(* statement, under the store's reentrant lock.  lastOp, raised, notified  *)
(* and saved describe the call that took the lock last.                    *)
(***************************************************************************)
\* LockFree for a lock that excludes nobody
LockFree_Always(t) == TRUE

\* whether thread t may take _lock: it is free or t holds it already
LockFree(t) == lock.owner = "none" \/ lock.owner = t

\* RLock.acquire by t
Acquired(t) == [owner |-> t, count |-> lock.count + 1]

\* RLock.release
Released ==
    IF lock.count <= 1 THEN Unlocked ELSE [owner |-> lock.owner, count |-> lock.count - 1]

\* WithExit that gives the lock back only when the block returns
WithExit_OnReturnOnly(failing) == IF failing THEN lock ELSE Released

\* the end of a with block: the lock is given back, whether the block
\* returns or an exception passes through it
WithExit(failing) == Released

\* the statements of the with block of _base_dispatch
InSection(t) == pc[t] \in {"reduce", "commit", "push", "persist", "notify", "release"}

\* line 147: the action test, before the lock is asked for
ThreadCall(t, action) ==
    /\ pc[t] = "idle"
    /\ calls[t] < MaxCalls
    /\ calls' = [calls EXCEPT ![t] = @ + 1]
    /\ IF IsAction(action)
       THEN /\ pc' = [pc EXCEPT ![t] = "acquire"]
            /\ taction' = [taction EXCEPT ![t] = action]
       ELSE UNCHANGED <<pc, taction>>
    /\ UNCHANGED <<storeVars, configVars, callVars, chainVars, ringVars, tnew, lock, committed>>

\* line 150: with self._lock
ThreadAcquire(t) ==
    /\ pc[t] = "acquire"
    /\ LockFree(t)
    /\ lock' = Acquired(t)
    /\ pc' = [pc EXCEPT ![t] = "reduce"]
    /\ lastOp' = Op("dispatch", taction[t])
    /\ raised' = "none"
    /\ notified' = <<>>
    /\ saved' = <<>>
    /\ UNCHANGED <<storeVars, configVars, chainVars, ringVars, taction, tnew, calls, committed>>

\* line 151: the reducer runs; when it raises the with block is left
ThreadReduce(t) ==
    /\ pc[t] = "reduce"
    /\ IF ReducerRaises(to_dict(state), taction[t])
       THEN /\ pc' = [pc EXCEPT ![t] = "release"]
            /\ raised' = "ReducerError"
            /\ UNCHANGED tnew
       ELSE /\ tnew' = [tnew EXCEPT ![t] = ReduceLive(state, taction[t])]
            /\ pc' = [pc EXCEPT ![t] = "commit"]
            /\ UNCHANGED raised
    /\ UNCHANGED <<storeVars, configVars, lastOp, notified, saved, chainVars, ringVars,
                   taction, calls, lock, committed>>

\* line 152: the live snapshot is replaced
ThreadCommit(t) ==
    /\ pc[t] = "commit"
    /\ state' = CommitState(state, tnew[t])
    /\ committed' = Append(committed, taction[t])
    /\ pc' = [pc EXCEPT ![t] = "push"]
    /\ UNCHANGED <<subscribers, debug_mode, history, current_index, slot, configVars,
                   callVars, chainVars, ringVars, taction, tnew, calls, lock>>

\* lines 154-155: the history push, under the ring's own lock
ThreadPush(t) ==
    /\ pc[t] = "push"
    /\ IF debug_mode
       THEN LET ring == push_state(history, current_index, tnew[t], taction[t])
            IN  /\ history' = ring.history
                /\ current_index' = ring.current_index
       ELSE UNCHANGED <<history, current_index>>
    /\ pc' = [pc EXCEPT ![t] = "persist"]
    /\ UNCHANGED <<state, subscribers, debug_mode, slot, configVars, callVars, chainVars, ringVars,
                   taction, tnew, calls, lock, committed>>

\* line 158: _persist_state()
ThreadPersist(t) ==
    /\ pc[t] = "persist"
    /\ IF storage
       THEN /\ slot' = JsonDumps(PersistBlob(state, persist_keys))
            /\ saved' = Append(saved, PersistBlob(state, persist_keys))
       ELSE UNCHANGED <<slot, saved>>
    /\ pc' = [pc EXCEPT ![t] = "notify"]
    /\ UNCHANGED <<state, subscribers, debug_mode, history, current_index, configVars,
                   lastOp, raised, notified, chainVars, ringVars, taction, tnew, calls,
                   lock, committed>>

\* line 160: _notify_subscribers() takes the lock again, invokes the
\* subscribers until one raises, and gives the lock back
ThreadNotify(t) ==
    /\ pc[t] = "notify"
    /\ LockFree(t)
    /\ notified' = notified \o NotifyCalls(subscribers)
    /\ raised' = IF NotifyRaises(subscribers) THEN "SubscriberError" ELSE "none"
    /\ pc' = [pc EXCEPT ![t] = "release"]
    /\ UNCHANGED <<storeVars, configVars, lastOp, saved, chainVars, ringVars, taction, tnew,
                   calls, lock, committed>>

\* the end of the with block, line 161 or the exception on its way out
ThreadRelease(t) ==
    /\ pc[t] = "release"
    /\ lock' = WithExit(raised # "none")
    /\ pc' = [pc EXCEPT ![t] = "idle"]
    /\ UNCHANGED <<storeVars, configVars, callVars, chainVars, ringVars, taction, tnew, calls, committed>>

\* enable_debug() by some other caller, which needs the lock
LockedEnableDebug == lock.owner = "none" /\ EnableDebug

NextConc ==
    \/ \E t \in Threads : \E action \in Dispatchable : ThreadCall(t, action)
    \/ \E t \in Threads : ThreadAcquire(t)
    \/ \E t \in Threads : ThreadReduce(t)
    \/ \E t \in Threads : ThreadCommit(t)
    \/ \E t \in Threads : ThreadPush(t)
    \/ \E t \in Threads : ThreadPersist(t)
    \/ \E t \in Threads : ThreadNotify(t)
    \/ \E t \in Threads : ThreadRelease(t)
    \/ LockedEnableDebug

SpecConc == Init /\ [][NextConc]_vars

(***************************************************************************)
(* Failing dispatches: the same threads on a store that has subscribers,   *)
(* some of which raise, and a reducer that raises on BOOM.  Subscribers    *)
(* are registered and debug mode is entered by a caller outside the two    *)
(* threads, whose calls need the lock as well.                             *)
(***************************************************************************)
\* what the two threads dispatch
FailActions == {Action("INC"), Action("BOOM")}

\* subscribe() by some other caller
LockedSubscribe(listener) ==
    lock.owner = "none" /\ SubscribeWithin(listener, MaxRegistrations)

NextFail ==
    \/ \E t \in Threads : \E action \in FailActions : ThreadCall(t, action)
    \/ \E t \in Threads : ThreadAcquire(t)
    \/ \E t \in Threads : ThreadReduce(t)
    \/ \E t \in Threads : ThreadCommit(t)
    \/ \E t \in Threads : ThreadPush(t)
    \/ \E t \in Threads : ThreadPersist(t)
    \/ \E t \in Threads : ThreadNotify(t)
    \/ \E t \in Threads : ThreadRelease(t)
    \/ \E listener \in Subscribers : LockedSubscribe(listener)
    \/ LockedEnableDebug

SpecFail == Init /\ [][NextFail]_vars

(***************************************************************************)
(* Properties of the store, under Spec.                                    *)
(***************************************************************************)
Last(seq) == seq[Len(seq)]

\* the three snapshots of the counter a nested store goes through
NestedAt(n) == DictSet(NestedState, "count", PyInt(n))

\* C1: in normal mode, once dispatch(action) has returned for an action that
\* is a mapping with a 'type' field, get_state() equals the reducer applied
\* to what get_state() returned just before the dispatch and the action.
C1_DispatchAppliesReducer ==
    [][(/\ lastOp'.op = "dispatch"
        /\ IsAction(lastOp'.arg)
        /\ ~debug_mode
        /\ raised' = "none")
       => get_state' = Reducer(get_state, lastOp'.arg)]_vars

\* C1 witness: a store whose debug mode was never enabled has returned from
\* its second INC on a nested state.
C1_Witness ==
    /\ lastOp = Op("dispatch", Action("INC"))
    /\ raised = "none"
    /\ ~debug_mode
    /\ history = <<>>
    /\ get_state = NestedAt(2)

\* C3: dispatching a value that is no mapping, or a mapping without 'type',
\* raises ValueError and changes neither the live state nor the ring nor
\* its cursor, invokes no subscriber and saves nothing.
C3_MalformedActionRejected ==
    [][(/\ lastOp'.op = "dispatch"
        /\ (lastOp'.arg.t # "dict" \/ "type" \notin DOMAIN lastOp'.arg.v))
       => /\ raised' = "ValueError"
          /\ state' = state
          /\ history' = history
          /\ current_index' = current_index
          /\ notified' = <<>>
          /\ saved' = <<>>
          /\ slot' = slot]_vars

\* C3 witness: a mapping without 'type' was refused by a store in debug
\* mode that has a backend, a subscriber and two history entries.
C3_Witness ==
    /\ lastOp.op = "dispatch"
    /\ lastOp.arg.t = "dict"
    /\ "type" \notin DOMAIN lastOp.arg.v
    /\ raised = "ValueError"
    /\ storage
    /\ debug_mode
    /\ Len(history) = 2
    /\ subscribers = <<"widget">>
    /\ notified = <<>>
    /\ saved = <<>>

\* C6: the cursor is -1 exactly when the ring is empty, and is otherwise an
\* index of a retained entry.
C6_CursorValid ==
    /\ (current_index = -1) <=> (history = <<>>)
    /\ history # <<>> => (0 <= current_index /\ current_index < Len(history))

\* C6 witness: time_travel_to(-1) was called on a full ring whose cursor
\* had been moved to entry 0.
C6_Witness ==
    /\ lastOp = Op("time_travel_to", PyInt(0 - 1))
    /\ debug_mode
    /\ Len(history) = MaxHistory
    /\ current_index = 0

\* C7: in debug mode, after time_travel_to(i) for a retained index i,
\* get_state() is the state recorded in entry i.
C7_TravelReadsEntry ==
    (/\ lastOp.op = "time_travel_to"
     /\ debug_mode
     /\ 0 <= lastOp.arg.v
     /\ lastOp.arg.v < Len(history))
    => get_state = history[lastOp.arg.v + 1].state

\* C7 witness: enable_debug on a fresh store, two dispatches, then
\* time_travel_to(0): get_state() is the @@INIT snapshot, not the live one.
C7_Witness ==
    /\ lastOp = Op("time_travel_to", PyInt(0))
    /\ debug_mode
    /\ history = <<HistoryEntry(NestedAt(0), INIT_ACTION),
                   HistoryEntry(NestedAt(1), Action("INC")),
                   HistoryEntry(NestedAt(2), Action("INC"))>>
    /\ get_state = NestedAt(0)
    /\ to_dict(state) = NestedAt(2)

\* C8 as stated: disable_debug() in debug mode commits the entry under the
\* cursor, so get_state() afterwards is that entry's state.
C8_CommitsCursorEntry ==
    [][(lastOp'.op = "disable_debug" /\ debug_mode)
       => get_state' = history[current_index + 1].state]_vars

\* C8 amended: disable_debug() in debug mode leaves debug mode with
\* get_state() equal to the state of the ring's last entry, whatever entry
\* the cursor points to.
C8_CommitsLastEntry ==
    [][(lastOp'.op = "disable_debug" /\ debug_mode)
       => /\ ~debug_mode'
          /\ get_state' = Last(history).state]_vars

\* C8 witness: disable_debug() was called with the cursor below the tail,
\* and get_state() is the last entry's state, not the cursor's.
C8_Witness ==
    /\ lastOp.op = "disable_debug"
    /\ ~debug_mode
    /\ current_index = 0
    /\ Len(history) = 3
    /\ get_state = Last(history).state
    /\ get_state # history[current_index + 1].state

\* C9 as stated: every disable_debug() that leaves debug mode sets the live
\* snapshot to the last entry's state and hands it (restricted to the
\* persist keys when there are any) to the backend's save.
C9_DisablePersists ==
    [][(lastOp'.op = "disable_debug" /\ debug_mode /\ storage)
       => /\ state' = ImmutableDict(Last(history).state)
          /\ saved' = <<PersistBlob(ImmutableDict(Last(history).state), persist_keys)>>]_vars

\* C10 as stated: enable_debug() adds no entry to a ring that holds entries.
C10_SeedsOnlyEmptyRing ==
    [][(lastOp'.op = "enable_debug" /\ history # <<>>) => history' = history]_vars

\* C10 amended: enable_debug() called in normal mode always pushes an
\* @@INIT entry holding the live snapshot and puts the cursor on it, after
\* dropping the entries behind the cursor, whether or not the ring was
\* empty; called in debug mode it leaves the ring and the cursor alone.
C10_SeedsOnEveryEntry ==
    [][lastOp'.op = "enable_debug"
       => IF ~debug_mode
          THEN /\ debug_mode'
               /\ history' # <<>>
               /\ Last(history') = HistoryEntry(get_state, INIT_ACTION)
               /\ current_index' = Len(history') - 1
               /\ Len(history') = (IF current_index + 1 < MaxHistory
                                   THEN current_index + 2 ELSE MaxHistory)
          ELSE /\ debug_mode'
               /\ history' = history
               /\ current_index' = current_index]_vars

\* C10 witness: debug mode was entered again on a ring that already held
\* entries, and a second @@INIT entry is at the tail.
C10_Witness ==
    /\ lastOp.op = "enable_debug"
    /\ debug_mode
    /\ Len(history) = 3
    /\ history[1].action = INIT_ACTION
    /\ history[2].action = Action("INC")
    /\ history[3] = HistoryEntry(NestedAt(2), INIT_ACTION)
    /\ current_index = 2

\* C17: with a backend, every dispatch that commits (in normal or debug
\* mode, wherever the cursor was) hands save exactly one blob, the new live
\* state restricted to the persist keys when there are any and whole
\* otherwise, and the backend then holds it; the save is made from the
\* replaced state and before the subscribers run, so it is there even when
\* a subscriber raises.
C17_DispatchPersists ==
    [][(/\ lastOp'.op = "dispatch"
        /\ storage
        /\ raised' \in {"none", "SubscriberError"})
       => LET live == to_dict(state')
              expected == IF Truthy(persist_keys)
                          THEN RestrictKeys(live, persist_keys)
                          ELSE live
          IN  /\ saved' = <<expected>>
              /\ StorageLoad(slot') = expected]_vars

\* C17 witness: a store with the allow-list ['count'] and a three-key state
\* committed an INC in debug mode; only the counter was saved, and the
\* subscriber that ran afterwards raised.
C17_Witness ==
    /\ lastOp = Op("dispatch", Action("INC"))
    /\ raised = "SubscriberError"
    /\ debug_mode
    /\ persist_keys = PyList(<<"count">>)
    /\ history = <<HistoryEntry(NestedAt(1), INIT_ACTION),
                   HistoryEntry(NestedAt(2), Action("INC"))>>
    /\ to_dict(state) = NestedAt(2)
    /\ saved = <<PyDict([k \in {"count"} |-> PyInt(2)])>>
    /\ StorageLoad(slot) = PyDict([k \in {"count"} |-> PyInt(2)])

\* C20: time_travel_to(i) in debug mode changes nothing but the cursor: the
\* live snapshot, the history entries, the subscriber list and the backend
\* are as before and save is not called; the cursor is i when entry i is
\* retained and is left alone otherwise, and the subscribers are notified
\* exactly when the cursor was set.
C20_TravelMovesOnlyCursor ==
    [][(lastOp'.op = "time_travel_to" /\ debug_mode)
       => /\ state' = state
          /\ history' = history
          /\ subscribers' = subscribers
          /\ debug_mode'
          /\ slot' = slot
          /\ saved' = <<>>
          /\ IF 0 <= lastOp'.arg.v /\ lastOp'.arg.v < Len(history)
             THEN /\ current_index' = lastOp'.arg.v
                  /\ notified' = NotifyCalls(subscribers)
             ELSE /\ current_index' = current_index
                  /\ notified' = <<>>]_vars

\* C20 witness: a store with a backend and a subscriber jumped from entry 2
\* to entry 0; the live snapshot still is the last entry's state, nothing
\* was saved and the subscriber was redrawn.
C20_Witness ==
    /\ lastOp = Op("time_travel_to", PyInt(0))
    /\ debug_mode
    /\ storage
    /\ Len(history) = 3
    /\ current_index = 0
    /\ to_dict(state) = Last(history).state
    /\ to_dict(state) # history[1].state
    /\ notified = <<Invocation("widget")>>
    /\ saved = <<>>

(***************************************************************************)
(* Properties of the history ring, under SpecRing.                         *)
(***************************************************************************)
\* the last n elements of seq, all of it when it is shorter
LastN(seq, n) ==
    IF Len(seq) <= n THEN seq ELSE SubSeq(seq, Len(seq) - n + 1, Len(seq))

\* C4: a ring of capacity MaxHistory never holds more than MaxHistory
\* entries, and while every push found the cursor at the tail it holds the
\* last MaxHistory pushed entries (all of them when fewer were pushed), in
\* push order.
C4_RingKeepsLastN ==
    /\ Len(history) <= MaxHistory
    /\ tailPushes => history = LastN(pushed, MaxHistory)

\* C4 witness: two more entries than the capacity were pushed at the tail,
\* the two oldest are gone and differ from the ones kept.
C4_Witness ==
    /\ tailPushes
    /\ Len(pushed) = MaxHistory + 2
    /\ Len(history) = MaxHistory
    /\ history[1] = pushed[3]
    /\ pushed[1] # pushed[3]
    /\ pushed[2] # pushed[3]
    /\ Last(history) = Last(pushed)

\* C5: a push made while the cursor c is below the last index leaves the
\* ring as the old entries 0..c followed by the new entry, with the cursor
\* on the new entry.
C5_PushTruncatesBranch ==
    [][(pushed' # pushed /\ current_index < Len(history) - 1)
       => /\ history' = SubSeq(history, 1, current_index + 1) \o <<Last(pushed')>>
          /\ current_index' = Len(history') - 1]_vars

\* C5 witness: a push was made with the cursor on the first of three
\* entries; two entries are left, the old first one and the new one.
C5_Witness ==
    /\ ~tailPushes
    /\ Len(pushed) = MaxHistory + 1
    /\ history = <<pushed[1], pushed[MaxHistory + 1]>>
    /\ pushed[2] # pushed[MaxHistory + 1]
    /\ current_index = 1

(***************************************************************************)
(* Properties of concurrent dispatch, under SpecConc.                      *)
(***************************************************************************)
RECURSIVE FoldReducer(_, _)
\* the reducer folded over a sequence of actions
FoldReducer(st, actions) ==
    IF actions = <<>> THEN st
    ELSE FoldReducer(Reducer(st, Head(actions)), Tail(actions))

\* C2: no two threads are inside the reducer/commit/push/persist/notify
\* section of _base_dispatch at once, and whenever no dispatch is in flight
\* the live state is the reducer folded over the committed actions in the
\* order they were committed.
C2_DispatchSerialized ==
    /\ \A t1 \in Threads : \A t2 \in Threads \ {t1} : ~(InSection(t1) /\ InSection(t2))
    /\ (\A t \in Threads : pc[t] = "idle")
          => to_dict(state) = FoldReducer(origin, committed)

\* C2 witness: both threads have dispatched INC and returned, and the
\* counter has moved by two.
C2_Witness ==
    /\ \A t \in Threads : pc[t] = "idle" /\ calls[t] = 1
    /\ committed = <<Action("INC"), Action("INC")>>
    /\ CountOf(to_dict(state)) = CountOf(origin) + 2

(***************************************************************************)
(* Properties of construction, under SpecCreate.                           *)
(***************************************************************************)
RECURSIVE DeepMerge(_, _)
\* the merge as the specification words it: a key only in the loaded blob
\* is adopted, a key in both with two mappings is merged recursively, a key
\* in both otherwise takes the loaded value, a key only in the initial
\* state is kept
DeepMerge(initial, loaded) ==
    PyDict([k \in DOMAIN initial.v \cup DOMAIN loaded.v |->
        IF k \notin DOMAIN initial.v THEN loaded.v[k]
        ELSE IF k \notin DOMAIN loaded.v THEN initial.v[k]
        ELSE IF initial.v[k].t = "dict" /\ loaded.v[k].t = "dict"
             THEN DeepMerge(initial.v[k], loaded.v[k])
        ELSE loaded.v[k]])

\* the keys of the loaded blob that a non-empty allow-list lets through
Allowed(loaded, keys) ==
    IF keys.t = "list" /\ Len(keys.v) > 0
    THEN PyDict([k \in {j \in DOMAIN loaded.v : \E i \in 1..Len(keys.v) : keys.v[i] = j}
                    |-> loaded.v[k]])
    ELSE loaded

\* C18: a store created with initial state I over a backend holding blob L
\* starts with get_state() equal to the deep merge of I (the empty mapping
\* when none is given) with L, L restricted to the persist keys when the
\* allow-list is not empty.
C18_InitialStateIsDeepMerge ==
    (lastOp.op = "create_store" /\ storage /\ slot.t = "json")
    => /\ get_state = origin
       /\ origin = DeepMerge(IF lastOp.arg.t = "dict" THEN lastOp.arg ELSE PyDict(EmptyMap),
                             Allowed(JsonLoads(slot), persist_keys))

\* C18 witness: initial state {count: 0, user: {id: 1, role: 1}} over the
\* blob {count: 5, user: {id: 2, name: 2}} with the allow-list ['count']
\* gives {count: 5, user: {id: 1, role: 1}}.
C18_Witness ==
    /\ lastOp = Op("create_store",
                   PyDict([k \in {"count", "user"} |->
                       IF k = "count" THEN PyInt(0)
                       ELSE PyDict([j \in {"id", "role"} |-> PyInt(1)])]))
    /\ persist_keys = PyList(<<"count">>)
    /\ StorageLoad(slot) =
          PyDict([k \in {"count", "user"} |->
              IF k = "count" THEN PyInt(5)
              ELSE PyDict([j \in {"id", "name"} |-> PyInt(2)])])
    /\ get_state =
          PyDict([k \in {"count", "user"} |->
              IF k = "count" THEN PyInt(5)
              ELSE PyDict([j \in {"id", "role"} |-> PyInt(1)])])

(***************************************************************************)
(* Properties of the subscriber list, under SpecSubs.                      *)
(***************************************************************************)
\* the step is a call that notifies: a dispatch that committed, or a
\* time_travel_to in debug mode to a retained index
Notifying ==
    \/ lastOp'.op = "dispatch" /\ raised' \in {"none", "SubscriberError"}
    \/ /\ lastOp'.op = "time_travel_to"
       /\ debug_mode
       /\ 0 <= lastOp'.arg.v
       /\ lastOp'.arg.v < Len(history)

\* the listeners invoked by the call made last, in order
Invoked(calls_made) == [i \in 1..Len(calls_made) |-> calls_made[i].subscriber]

\* how many times x occurs in seq
Occurrences(seq, x) == Cardinality({i \in 1..Len(seq) : seq[i] = x})

\* C19 as stated: every committed dispatch and every time_travel_to to a
\* retained index invokes each registration of the subscriber list exactly
\* once, in subscription order.
C19_EveryRegistrationInvoked ==
    [][Notifying => Invoked(notified') = subscribers]_vars

\* C19 amended: subscribe appends one registration; unsubscribe removes the
\* earliest registration of its callback when there is one, keeping the
\* others in order, and does nothing otherwise; a notification invokes the
\* registrations once each in subscription order up to and including the
\* first one that raises, and all of them when none raises.
C19_InvokedInOrderUntilRaise ==
    [][/\ lastOp'.op = "subscribe"
          => subscribers' = Append(subscribers, lastOp'.arg.v)
       /\ lastOp'.op = "unsubscribe"
          => LET listener == lastOp'.arg.v
             IN  IF Occurrences(subscribers, listener) = 0
                 THEN subscribers' = subscribers
                 ELSE \E i \in 1..Len(subscribers) :
                         /\ subscribers[i] = listener
                         /\ \A j \in 1..(i - 1) : subscribers[j] # listener
                         /\ subscribers' = SubSeq(subscribers, 1, i - 1)
                                               \o SubSeq(subscribers, i + 1, Len(subscribers))
       /\ Notifying
          => LET n == Len(notified')
             IN  /\ n <= Len(subscribers)
                 /\ Invoked(notified') = SubSeq(subscribers, 1, n)
                 /\ \A i \in 1..(n - 1) : subscribers[i] # "faulty"
                 /\ n < Len(subscribers) => (n > 0 /\ subscribers[n] = "faulty")
                 /\ (raised' = "SubscriberError") <=> (n > 0 /\ subscribers[n] = "faulty")]_vars

\* C19 witness: a callback registered twice around a widget, after a jump
\* to entry 0, was called, the widget redrawn, and the callback called
\* again.
C19_Witness ==
    /\ lastOp = Op("time_travel_to", PyInt(0))
    /\ debug_mode
    /\ Len(history) = 2
    /\ subscribers = <<"callback", "widget", "callback">>
    /\ notified = <<Invocation("callback"), Invocation("widget"), Invocation("callback")>>
    /\ raised = "none"

(***************************************************************************)
(* Properties of combine_reducers, under SpecCombine.                      *)
(***************************************************************************)
\* C16 as stated: the combined reducer maps state s and action a to the
\* mapping over exactly the registered keys whose value at key k is the
\* sub-reducer of k applied to s.get(k) (absent: None) and a; keys of s
\* without a registered reducer are not in it.
C16_CombinedIsMappingOfSlices ==
    lastOp.op = "combined_reducer"
    => LET reducers == lastOp.arg.reducers
           st == IF lastOp.arg.state = PyNone THEN PyDict(EmptyMap) ELSE lastOp.arg.state
       IN  returned = PyDict([k \in DOMAIN reducers |->
                          SubReducer(reducers[k],
                                     IF k \in DOMAIN st.v THEN st.v[k] ELSE PyNone,
                                     lastOp.arg.action)])

(***************************************************************************)
(* Properties of the middleware chain, under SpecChain.                    *)
(***************************************************************************)
\* the events of a trace without the reducer calls, as (who, what)
Steps(events) ==
    LET kept == SelectSeq(events, LAMBDA e : e.ev # "reduce")
    IN  [k \in 1..Len(kept) |-> <<kept[k].who, kept[k].ev>>]

\* a link takes the action up / is done with it
Entry == {"enter", "skip"}

Exit == {"exit", "raise"}

\* C11: every call of the composed dispatch enters the first-registered
\* middleware first and leaves it last, and the base dispatch is entered
\* from, and returns to, the last-registered middleware; with
\* apply_middleware(M1, M2) the order is M1, M2, base, base, M2, M1.
C11_FirstRegisteredOutermost ==
    (lastOp.op \in {"dispatch", "enhanced_create_store"} /\ chain # <<>>)
    => /\ Head(trace).who = chain[1]
       /\ Head(trace).ev \in Entry
       /\ Head(trace).action = lastOp.arg
       /\ Last(trace).who = chain[1]
       /\ Last(trace).ev \in Exit
       /\ Last(trace).action = lastOp.arg
       /\ \A k \in 1..Len(trace) :
             trace[k].who = "base"
             => CASE trace[k].ev = "enter" ->
                       /\ trace[k - 1].who = chain[Len(chain)]
                       /\ trace[k - 1].ev \in Entry
                       /\ trace[k - 1].action = trace[k].action
                  [] trace[k].ev \in Exit ->
                       /\ trace[k + 1].who = chain[Len(chain)]
                       /\ trace[k + 1].ev \in Exit \cup {"catch"}
                       /\ trace[k + 1].action = trace[k].action
                  [] OTHER -> TRUE
       /\ chain = <<"probe1", "probe2">>
             => \E left \in Exit :
                   Steps(trace) = <<<<"probe1", "enter">>, <<"probe2", "enter">>,
                                    <<"base", "enter">>, <<"base", left>>,
                                    <<"probe2", left>>, <<"probe1", left>>>>

\* C11 witness: INC dispatched through apply_middleware(probe1, probe2)
\* went in through probe1 and probe2 to the base dispatch and came back
\* through probe2 and probe1.
C11_Witness ==
    /\ chain = <<"probe1", "probe2">>
    /\ lastOp = Op("dispatch", Action("INC"))
    /\ failure = NoFailure
    /\ CountOf(to_dict(state)) = 1
    /\ trace = <<Event("probe1", "enter", Action("INC"), NoFailure),
                 Event("probe2", "enter", Action("INC"), NoFailure),
                 Event("base", "enter", Action("INC"), NoFailure),
                 Event("base", "reduce", Action("INC"), NoFailure),
                 Event("base", "exit", Action("INC"), NoFailure),
                 Event("probe2", "exit", Action("INC"), NoFailure),
                 Event("probe1", "exit", Action("INC"), NoFailure)>>

\* C12: an action a middleware dispatches through the API object, wherever
\* that middleware is in the chain, enters the first-registered middleware
\* next and goes through every link in registration order to the base
\* dispatch; so it is during the @@pyredux/INIT dispatch of construction.
C12_ApiDispatchTraversesChain ==
    \A k \in 1..Len(trace) :
        trace[k].ev = "dispatch"
        => /\ k + Len(chain) + 1 <= Len(trace)
           /\ \A j \in 1..Len(chain) :
                 trace[k + j] = Event(chain[j], "enter", trace[k].action, NoFailure)
           /\ trace[k + Len(chain) + 1] = Event("base", "enter", trace[k].action, NoFailure)

\* C12 witness: during construction the relay in the middle of
\* (probe1, relay, probe2) dispatched INC while handling @@pyredux/INIT,
\* and INC went through probe1, the relay and probe2 and was reduced.
C12_Witness ==
    /\ lastOp = Op("enhanced_create_store", PYREDUX_INIT)
    /\ chain = <<"probe1", "relay", "probe2">>
    /\ trace[2] = Event("relay", "enter", PYREDUX_INIT, NoFailure)
    /\ trace[3] = Event("relay", "dispatch", Action("INC"), NoFailure)
    /\ trace[4] = Event("probe1", "enter", Action("INC"), NoFailure)
    /\ trace[7] = Event("base", "enter", Action("INC"), NoFailure)
    /\ CountOf(to_dict(state)) = CountOf(origin) + 1

\* C13: on a store whose chain ends with the thunk middleware, after
\* type-guarded middlewares only, a dispatched function is invoked exactly
\* once, with the composed dispatch (what it dispatches enters the first
\* link) and get_state; what it returns is what dispatch returns; no
\* guarded middleware runs its logic on it and it does not reach the base
\* dispatch or the reducer.  An action that is no function goes from the
\* thunk middleware to the next link as it is.
C13_ThunkInvokedNotForwarded ==
    (lastOp.op = "dispatch" /\ chain # <<>> /\ chain[Len(chain)] = "thunk")
    => IF lastOp.arg.t = "func"
       THEN /\ Cardinality({k \in 1..Len(trace) : trace[k].ev = "invoke"}) = 1
            /\ \A k \in 1..Len(trace) :
                  /\ trace[k].ev = "invoke"
                     => /\ trace[k] = Event("thunk", "invoke", lastOp.arg, NoFailure)
                        /\ trace[k + 1] = Event("thunk", "dispatch", Action("INC"), NoFailure)
                        /\ trace[k + 2] = Event(chain[1], "enter", Action("INC"), NoFailure)
                  /\ trace[k].action = lastOp.arg
                     => /\ trace[k].who # "base"
                        /\ trace[k].who # "thunk" => trace[k].ev \in {"skip"} \cup Exit
            /\ failure = NoFailure => returned = get_state
            /\ failure # NoFailure => returned = PyNone
       ELSE \E k \in 1..Len(trace) :
               /\ trace[k] = Event("thunk", "enter", lastOp.arg, NoFailure)
               /\ trace[k + 1] = Event("base", "enter", lastOp.arg, NoFailure)

\* C13 witness: a function dispatched through (guarded, error, thunk) was
\* invoked, dispatched an INC that was reduced, and dispatch returned the
\* state the function read afterwards.
C13_Witness ==
    /\ lastOp = Op("dispatch", PyFunc("thunk"))
    /\ chain = <<"guarded", "error", "thunk">>
    /\ failure = NoFailure
    /\ trace[1] = Event("guarded", "skip", PyFunc("thunk"), NoFailure)
    /\ trace[2] = Event("error", "skip", PyFunc("thunk"), NoFailure)
    /\ trace[4] = Event("thunk", "invoke", PyFunc("thunk"), NoFailure)
    /\ returned = NestedAt(1)
    /\ to_dict(state) = NestedAt(1)

\* C14 as stated: when the error middleware catches a failure of the next
\* link for an action whose type is not ERROR, exactly one ERROR action
\* carrying that action and the error is dispatched, and the caller of
\* dispatch gets the failure that was caught.
C14_ReportsOnceAndReraisesOriginal ==
    (lastOp.op = "dispatch" /\ lastOp.arg.t = "dict" /\ ActionType(lastOp.arg) # "ERROR")
    => \A k \in 1..Len(trace) :
          (trace[k].who = "error" /\ trace[k].ev = "catch" /\ trace[k].action = lastOp.arg)
          => /\ Cardinality({j \in 1..Len(trace) :
                    trace[j].who = "error" /\ trace[j].ev = "dispatch"}) = 1
             /\ trace[k + 1] = Event("error", "dispatch",
                                     ErrorAction(lastOp.arg, trace[k].failure), NoFailure)
             /\ failure = trace[k].failure

\* C15 as stated presumes a debounce middleware instance with delay D:
\* debounce_middleware(D) returns a middleware that forwards or drops the
\* actions it is given.
C15_DebounceInstanceMade ==
    lastOp.op = "debounce_middleware" => (raised = "none" /\ returned.t = "func")

(***************************************************************************)
(* Properties of failing dispatches, under SpecFail.                       *)
(***************************************************************************)
\* C21: when a subscriber raises during the notification of a dispatch, the
\* call ends with that failure while the transition stays committed: the
\* live state is the reducer's result, in debug mode the entry is pushed and
\* the cursor on it, with a backend the new state is saved, the subscribers
\* registered after the failing one have not been invoked, and the lock is
\* free again when the call is left.
C21_SubscriberFailureKeepsTransition ==
    [][\A t \in Threads :
        (pc[t] = "release" /\ pc'[t] = "idle" /\ raised = "SubscriberError") =>
            /\ raised' = "SubscriberError"
            /\ lastOp' = Op("dispatch", taction[t])
            /\ committed # <<>>
            /\ Last(committed) = taction[t]
            /\ to_dict(state') = FoldReducer(origin, committed)
            /\ debug_mode' =>
                  /\ history' # <<>>
                  /\ Last(history') = HistoryEntry(to_dict(state'), taction[t])
                  /\ current_index' = Len(history') - 1
            /\ IF storage
               THEN /\ saved' = <<PersistBlob(state', persist_keys)>>
                    /\ slot' = JsonDumps(PersistBlob(state', persist_keys))
               ELSE saved' = <<>>
            /\ \E i \in 1..Len(subscribers') :
                  /\ subscribers'[i] = "faulty"
                  /\ \A j \in 1..(i - 1) : subscribers'[j] # "faulty"
                  /\ Invoked(notified') = SubSeq(subscribers', 1, i)
            /\ lock' = Unlocked]_vars

\* C21 witness: in debug mode and with a backend, the first thread's
\* dispatch of INC has ended with the failure of the second of three
\* subscribers; the third was not invoked, the increment is committed,
\* pushed and saved, and the lock is free for the second thread, which is
\* about to take it.
C21_Witness ==
    /\ pc["t1"] = "idle"
    /\ calls["t1"] = 1
    /\ pc["t2"] = "acquire"
    /\ lock = Unlocked
    /\ raised = "SubscriberError"
    /\ lastOp = Op("dispatch", Action("INC"))
    /\ subscribers = <<"widget", "faulty", "widget">>
    /\ notified = <<Invocation("widget"), Invocation("faulty")>>
    /\ committed = <<Action("INC")>>
    /\ storage
    /\ persist_keys = PyNone
    /\ debug_mode
    /\ to_dict(state) = PyDict([k \in {"count"} |-> PyInt(1)])
    /\ Len(history) = 2
    /\ Last(history) = HistoryEntry(to_dict(state), Action("INC"))
    /\ current_index = 1
    /\ saved = <<to_dict(state)>>
    /\ slot = JsonDumps(to_dict(state))

\* thread t is dispatching a well-formed action on which the reducer raises
ReducerFails(t) == IsAction(taction[t]) /\ ReducerRaises(to_dict(state), taction[t])

\* C23: when the reducer raises for a well-formed action given to the base
\* dispatch, the call goes from the reducer straight out of the locked
\* block: no step of it, from taking the lock to leaving the block, changes
\* the live state, the history or its cursor, nothing is saved and no
\* subscriber is invoked, the call ends with the reducer's failure, and the
\* lock is free again when the call is left.
C23_ReducerFailureChangesNothing ==
    [][\A t \in Threads :
        (pc[t] \in {"acquire", "reduce", "release"} /\ pc'[t] # pc[t] /\ ReducerFails(t)) =>
            /\ pc'[t] = CASE pc[t] = "acquire" -> "reduce"
                           [] pc[t] = "reduce" -> "release"
                           [] OTHER -> "idle"
            /\ UNCHANGED <<state, history, current_index, slot, committed>>
            /\ saved' = <<>>
            /\ notified' = <<>>
            /\ lastOp' = Op("dispatch", taction[t])
            /\ raised' = IF pc[t] = "acquire" THEN "none" ELSE "ReducerError"
            /\ (pc'[t] = "idle") => (lock' = Unlocked)]_vars

\* C23 witness: in debug mode, with a backend and a subscriber, the first
\* thread's dispatch of BOOM has ended with the reducer's failure; the live
\* state is the one the store was built with, the history holds its first
\* entry only, nothing was saved, the subscriber was not invoked, and the
\* lock is free for the second thread, which is about to take it.
C23_Witness ==
    /\ pc["t1"] = "idle"
    /\ calls["t1"] = 1
    /\ taction["t1"] = Action("BOOM")
    /\ pc["t2"] = "acquire"
    /\ lock = Unlocked
    /\ raised = "ReducerError"
    /\ lastOp = Op("dispatch", Action("BOOM"))
    /\ subscribers = <<"widget">>
    /\ notified = <<>>
    /\ committed = <<>>
    /\ storage
    /\ saved = <<>>
    /\ slot = StoredBlob
    /\ debug_mode
    /\ to_dict(state) = origin
    /\ history = <<HistoryEntry(origin, INIT_ACTION)>>
    /\ current_index = 0

(***************************************************************************)
(* Properties of the history and the live snapshot, under Spec.            *)
(***************************************************************************)
\* C22: whenever the store is in debug mode, after any sequence of
\* enable_debug, disable_debug, dispatch and time_travel_to, the state in
\* the last entry of the history equals the live snapshot; and no
\* disable_debug changes the live snapshot.
C22_TailEntryIsLiveSnapshot ==
    [][/\ debug_mode' =>
            /\ history' # <<>>
            /\ Last(history').state = to_dict(state')
       /\ (lastOp'.op = "disable_debug") => (state' = state)]_vars

\* C22 witness: debug mode was entered, INC dispatched, the cursor moved
\* back to the first entry, and debug mode left; the live snapshot is still
\* the one of the last entry, not the one under the cursor.
C22_Witness ==
    /\ lastOp.op = "disable_debug"
    /\ ~debug_mode
    /\ Len(history) = 2
    /\ current_index = 0
    /\ history[2].action = Action("INC")
    /\ history[2].state = to_dict(state)
    /\ history[1].state # to_dict(state)
    /\ storage
    /\ saved = <<PersistBlob(state, persist_keys)>>

\* C24: in debug mode with the cursor on an index below the tail, a
\* dispatch that commits computes the next state from the live snapshot,
\* not from the state of the entry under the cursor; afterwards the history
\* is the entries up to the cursor followed by the new entry, the cursor is
\* on the new tail, and get_state() returns the reducer applied to the live
\* snapshot and the action.
C24_RewoundDispatchReducesLive ==
    [][(/\ lastOp'.op = "dispatch"
        /\ IsAction(lastOp'.arg)
        /\ raised' \in {"none", "SubscriberError"}
        /\ debug_mode
        /\ current_index < Len(history) - 1)
       => /\ to_dict(state') = Reducer(to_dict(state), lastOp'.arg)
          /\ history' = Append(SubSeq(history, 1, current_index + 1),
                               HistoryEntry(Reducer(to_dict(state), lastOp'.arg), lastOp'.arg))
          /\ current_index' = Len(history') - 1
          /\ get_state' = Reducer(to_dict(state), lastOp'.arg)]_vars

\* C24 witness: debug mode was entered, INC dispatched, the cursor moved
\* back to the first entry and INC dispatched again; the history is the
\* first entry followed by one whose counter is two above it, where the
\* reducer applied to the first entry's state would have given one above.
C24_Witness ==
    /\ lastOp = Op("dispatch", Action("INC"))
    /\ raised = "none"
    /\ debug_mode
    /\ history = <<HistoryEntry(origin, INIT_ACTION),
                   HistoryEntry(to_dict(state), Action("INC"))>>
    /\ current_index = 1
    /\ CountOf(to_dict(state)) = CountOf(origin) + 2
    /\ get_state # Reducer(history[1].state, Action("INC"))
    /\ get_state = to_dict(state)
====
